---- MODULE Spec2Model ----
(***************************************************************************)
(* Model of the companion Uploader                                         *)
(* (packages/@uppy/companion/src/server/Uploader.js).                      *)
(*                                                                         *)
(* One Uploader session: its options, the two sinks (the file write stream *)
(* and, for tus, the PassThrough tee), the three upload strategies, the    *)
(* events emitted on the token channel and the pause/resume listeners on   *)
(* the shared emitter.                                                     *)
(*                                                                         *)
(* Byte counts are kept even so that bytesWritten / 2 + bytesUploaded / 2  *)
(* (emitIllusiveProgress) is an integer; with these small values the       *)
(* floating point percentage and the integer one have the same floor.      *)
(***************************************************************************)
EXTENDS Integers, Sequences, FiniteSets, TLC

\* ------------------------------------------------------------------ bounds
\* number of handleChunk calls with a (non-null) chunk
MaxChunks == 2
\* number of pause / resume signals delivered on the emitter
MaxSignals == 2
\* number of pause / resume signals delivered to the second session
PeerSignals == 1

\* ------------------------------------------------------- program constants
multipart == "multipart"
s3Multipart == "s3-multipart"
tusProtocol == "tus"
\* options.protocol absent (handleChunk then defaults to multipart)
NoProtocol == "undefined"
PROTOCOLS == {multipart, s3Multipart, tusProtocol}

\* Number values that are not integers: 0 / 0 and x / 0 (x > 0)
NaN == 0 - 1
Infinity == 1000000

\* length of every chunk handed to handleChunk, and of every 'data' event
ChunkLen == 2
\* declared sizes (options.size)
\* options.size left out of the configuration (undefined)
NoSize == 0 - 2
Sizes == {NoSize, 0, 2, 4}

NoMsg == "null"
MsgNoDestination == "No destination specified"
MsgInvalidUrl == "Invalid destination url"
MsgNotAllowed == "upload destination does not match any allowed destinations"

\* ---------------------------------------------------------------- options
\* A url option: undefined, or a string described by the parts the
\* validation looks at.
NoUrl == [kind |-> "undefined", scheme |-> "", host |-> "", tld |-> FALSE, path |-> ""]
EmptyUrl == [kind |-> "string", scheme |-> "", host |-> "", tld |-> FALSE, path |-> ""]
GoodUrl == [kind |-> "string", scheme |-> "https", host |-> "uploads.example.com", tld |-> TRUE, path |-> "f"]
EvilUrl == [kind |-> "string", scheme |-> "https", host |-> "evil.example.com", tld |-> TRUE, path |-> "x"]
NoSchemeUrl == [kind |-> "string", scheme |-> "", host |-> "uploads.example.com", tld |-> TRUE, path |-> "f"]
LocalUrl == [kind |-> "string", scheme |-> "http", host |-> "localhost", tld |-> FALSE, path |-> "f"]
Urls == {NoUrl, EmptyUrl, GoodUrl, EvilUrl, NoSchemeUrl, LocalUrl}

\* JavaScript truthiness of a url option (undefined and '' are falsy)
Truthy(url) == url.kind = "string" /\ (url.scheme # "" \/ url.host # "" \/ url.path # "")

\* uppyOptions.uploadUrls: absent, or a list of patterns
UploadsPattern == [scheme |-> "https", host |-> "uploads.example.com", path |-> "*"]
LocalPattern == [scheme |-> "http", host |-> "localhost", path |-> "f"]
NoList == [configured |-> FALSE, patterns |-> <<>>]
AllowLists == {NoList,
               [configured |-> TRUE, patterns |-> <<>>],
               [configured |-> TRUE, patterns |-> <<UploadsPattern>>],
               [configured |-> TRUE, patterns |-> <<LocalPattern, UploadsPattern>>]}

\* validator.isURL(url, { require_protocol: true, require_tld })
isURL(url, require_tld) ==
    /\ url.host # ""
    /\ url.scheme # ""
    /\ (require_tld => url.tld)

\* helpers/utils hasMatch(value, criteria): some pattern matches the url; a
\* pattern path of "*" is a wildcard segment.
PatternMatches(url, p) ==
    /\ url.scheme = p.scheme
    /\ url.host = p.host
    /\ (p.path = "*" \/ p.path = url.path)

hasMatch(url, patterns) == \E i \in 1..Len(patterns) : PatternMatches(url, patterns[i])

\* The callback of [endpoint, uploadUrl].every(...): the message it sets, or
\* NoMsg when it returns true.
CheckUrl(url, o) ==
    IF Truthy(url) /\ ~isURL(url, ~o.debug) THEN MsgInvalidUrl
    ELSE IF o.uploadUrls.configured /\ Truthy(url) /\ ~hasMatch(url, o.uploadUrls.patterns)
         THEN MsgNotAllowed
    ELSE NoMsg

\* mutant: only the endpoint is validated
validateOptions_EndpointOnly(o) ==
    IF o.protocol = s3Multipart THEN NoMsg
    ELSE IF ~Truthy(o.endpoint) /\ ~Truthy(o.uploadUrl) THEN MsgNoDestination
    ELSE CheckUrl(o.endpoint, o)

\* validateOptions: the value of _errRespMessage it leaves (NoMsg when it
\* returns true).  every() stops at the first url that fails.
validateOptions(o) ==
    IF o.protocol = s3Multipart THEN NoMsg
    ELSE IF ~Truthy(o.endpoint) /\ ~Truthy(o.uploadUrl) THEN MsgNoDestination
    ELSE IF CheckUrl(o.endpoint, o) # NoMsg THEN CheckUrl(o.endpoint, o)
    ELSE CheckUrl(o.uploadUrl, o)

Protocols == PROTOCOLS \cup {NoProtocol}

\* every configuration the validation distinguishes
AllOptions ==
    [protocol : Protocols, endpoint : Urls, uploadUrl : Urls, size : {2},
     s3 : {FALSE}, debug : BOOLEAN, uploadUrls : AllowLists, storage : {"none"}]

\* the configurations whose sessions are run
RunOptions ==
    [protocol : Protocols, endpoint : {NoUrl, GoodUrl}, uploadUrl : {NoUrl, GoodUrl},
     size : Sizes, s3 : BOOLEAN, debug : {FALSE}, uploadUrls : {NoList},
     storage : {"none"}]

\* options.storage: absent ("none"), a store whose set works ("ok"), a store
\* whose set throws ("throws")
StorageOptions ==
    [protocol : Protocols, endpoint : {NoUrl, GoodUrl}, uploadUrl : {NoUrl},
     size : {2}, s3 : BOOLEAN, debug : {FALSE}, uploadUrls : {NoList},
     storage : {"ok", "throws"}]

\* ------------------------------------------------------------------ state
\* options : the options object handed to the constructor
\* s       : the Uploader object together with what its callbacks act on:
\*           the two streams, the protocol drivers, the emitter and the file
\* peer    : a second session of the same process (tus, its own token and
\*           file); the emitter is process-wide: s.listeners holds the names
\*           with a listener of either session
VARIABLES options, s, peer

vars == <<options, s, peer>>

\* uuid.v4() of the two sessions; this.token of an object whose constructor
\* returned early
TokenA == "A"
TokenB == "B"
NoToken == "undefined"

\* `pause:${token}`, `resume:${token}`, `connection:${token}`
Name(kind, token) == <<kind, token>>

\* a driver total that is null / undefined / 0 (falsy in `bytesTotal || size`)
NoTotal == 0

NoPayload == [set |-> FALSE, bytesUploaded |-> 0, bytesTotal |-> 0, streamsEnded |-> FALSE]

\* The object the constructor leaves behind.  On a validation failure it
\* returns before any field but _errRespMessage is assigned.
Constructor(o) ==
    [ errRespMessage |-> validateOptions(o),
      \* this.options / this.token assigned
      constructed |-> (validateOptions(o) = NoMsg),
      token |-> IF validateOptions(o) = NoMsg THEN TokenA ELSE NoToken,
      \* fs.createWriteStream(this.options.path) called
      writeStream |-> (validateOptions(o) = NoMsg),
      \* new stream.PassThrough() for tus
      duplexStream |-> (validateOptions(o) = NoMsg /\ o.protocol = tusProtocol),
      \* the file at options.path exists
      fileExists |-> (validateOptions(o) = NoMsg),
      streamsEnded |-> FALSE,
      \* endStreams() has been called
      ended |-> FALSE,
      \* one record per writeToStreams call
      writes |-> <<>>,
      emittedProgress |-> 0,
      \* a 'progress' event was emitted with the whole percentage of the
      \* one emitted before it (or with 0 as the first one)
      repeatedProgress |-> FALSE,
      \* this.storage, and the action of the state last stored in it
      storage |-> IF validateOptions(o) = NoMsg THEN o.storage ELSE "none",
      saved |-> "none",
      \* the last dataToEmit of emitProgress
      payload |-> NoPayload,
      \* this.tus is set / state of the tus.Upload driver
      tus |-> FALSE,
      tusState |-> "none",
      tusOffset |-> 0,
      tusStarts |-> 0,
      \* start() was called while an attempt was running
      tusOverlap |-> FALSE,
      \* this.s3Upload / state of the managed upload
      s3Upload |-> "undefined",
      s3State |-> "none",
      s3Closed |-> FALSE,
      s3Loaded |-> 0,
      s3Calls |-> 0,
      \* uploadMultipart: the request and its bytesUploaded counter
      mpState |-> "none",
      mpUploaded |-> 0,
      mpStarts |-> 0,
      \* what the request.post callback received, and the headers of the
      \* respObj it put into the emitted payload
      mpResponse |-> "none",
      mpHeaders |-> {},
      \* events emitted on the token channel
      nSuccess |-> 0,
      nError |-> 0,
      \* calls of emitSuccess / emitError
      terminalCalls |-> 0,
      \* calls of cleanUp that ran
      cleanUps |-> 0,
      \* names with a listener on the shared emitter
      listeners |-> {},
      \* the names the last cleanUp left on the emitter
      keptNames |-> {},
      \* pause / resume signals delivered so far
      signals |-> 0,
      \* exception thrown by the last public call
      thrown |-> "none" ]

hasError(u) == u.errRespMessage # NoMsg

getResponse(u) ==
    IF u.errRespMessage # NoMsg
    THEN [body |-> u.errRespMessage, status |-> 400]
    ELSE [body |-> "token", status |-> 200]

\* const protocol = this.options.protocol || PROTOCOLS.multipart
Protocol(o) == IF o.protocol = NoProtocol THEN multipart ELSE o.protocol

RECURSIVE SumWritten(_, _)
SumWritten(ws, i) ==
    IF i = 0 THEN 0
    ELSE SumWritten(ws, i - 1)
         + (IF ws[i].fileAck /\ ~ws[i].afterEnd THEN ws[i].len ELSE 0)

\* get bytesWritten: the bytes the file write stream has written
bytesWritten(u) == SumWritten(u.writes, Len(u.writes))

RECURSIVE SumTeed(_, _)
SumTeed(ws, i) ==
    IF i = 0 THEN 0
    ELSE SumTeed(ws, i - 1)
         + (IF ws[i].teeAck /\ ~ws[i].afterEnd THEN ws[i].len ELSE 0)

\* bytes that went through the PassThrough and can be read by the tus driver
bytesTeed(u) == SumTeed(u.writes, Len(u.writes))

\* Math.floor(bytesUploaded / bytesTotal * 100)
RoundedPercentage(bytesUploaded, bytesTotal) ==
    IF bytesTotal = NoSize THEN NaN
    ELSE IF bytesTotal = 0
    THEN (IF bytesUploaded = 0 THEN NaN ELSE Infinity)
    ELSE (bytesUploaded * 100) \div bytesTotal

\* a !== b on numbers (NaN differs from everything, itself included)
StrictNotEqual(a, b) == a = NaN \/ b = NaN \/ a # b

\* this.storage.set(...) throws: the exception leaves saveState and the
\* method that called it
saveStateThrows(u) == u.storage = "throws"

\* saveState(state)
saveState(u, action) ==
    IF u.storage = "ok" THEN [u EXCEPT !.saved = action] ELSE u

\* the statements of a callback that follow an emit are reached only when
\* the emit returned: v is the object after the emit, w after the statements
\* that follow it
UnlessThrown(u, v, w) == IF saveStateThrows(u) THEN v ELSE w

\* the two whole percentages are the same number (NaN and NaN included),
\* as a receiver of the two events sees them
SameNumber(a, b) == a = b

\* emitProgress(bytesUploaded, bytesTotal): the payload is computed (and saved)
\* on every call, the event is emitted when the whole percentage changed
emitProgress(u, o, bytesUploaded, bytesTotal) ==
    LET bt1 == IF bytesTotal = NoTotal THEN o.size ELSE bytesTotal
        bt == IF u.tus /\ u.streamsEnded THEN bytesWritten(u) ELSE bt1
        rounded == RoundedPercentage(bytesUploaded, bt)
        u1 == saveState([u EXCEPT !.payload =
                            [set |-> TRUE, bytesUploaded |-> bytesUploaded,
                             bytesTotal |-> bt, streamsEnded |-> u.streamsEnded]],
                        "progress")
    IN IF saveStateThrows(u) THEN u1
       ELSE IF StrictNotEqual(u.emittedProgress, rounded)
       THEN [u1 EXCEPT !.emittedProgress = rounded,
                       !.repeatedProgress = @ \/ SameNumber(u.emittedProgress, rounded)]
       ELSE u1

emitIllusiveProgress(u, o, bytesUploaded) ==
    LET bytesTotal == IF u.streamsEnded THEN bytesWritten(u) ELSE o.size
        illusiveBytesUploaded == (bytesWritten(u) \div 2) + (bytesUploaded \div 2)
    IN emitProgress(u, o, illusiveBytesUploaded, bytesTotal)

emitSuccess(u) ==
    LET u1 == saveState([u EXCEPT !.terminalCalls = @ + 1], "success")
    IN IF saveStateThrows(u) THEN u1 ELSE [u1 EXCEPT !.nSuccess = @ + 1]

emitError(u) ==
    LET u1 == saveState([u EXCEPT !.terminalCalls = @ + 1], "error")
    IN IF saveStateThrows(u) THEN u1 ELSE [u1 EXCEPT !.nError = @ + 1]

\* mutant: the pause / resume listeners of every token are removed
cleanUp_AnyToken(u) ==
    [u EXCEPT !.fileExists = FALSE,
              !.listeners = {n \in @ : n[1] \notin {"pause", "resume"}},
              !.keptNames = {n \in u.listeners : n[1] \notin {"pause", "resume"}},
              !.cleanUps = @ + 1]

cleanUp(u) ==
    [u EXCEPT !.fileExists = FALSE,
              !.listeners = @ \ {Name("pause", u.token), Name("resume", u.token)},
              !.keptNames = u.listeners \ {Name("pause", u.token), Name("resume", u.token)},
              !.cleanUps = @ + 1]

\* ------------------------------------------------------ upload strategies
\* new tus.Upload(...), this.tus.start(), and the pause / resume listeners
uploadTus(u) ==
    [u EXCEPT !.tus = TRUE,
              !.tusState = "running",
              !.tusStarts = @ + 1,
              !.listeners = @ \cup {Name("pause", u.token), Name("resume", u.token)}]

\* fs.createReadStream, the 'data' listener and request.post
uploadMultipart(u) ==
    [u EXCEPT !.mpState = "posting",
              !.mpUploaded = 0,
              !.mpStarts = @ + 1]

\* uploadS3 / _uploadS3: the error when the client is not configured,
\* otherwise client.upload(...), this.s3Upload = upload, upload.send(...)
uploadS3(u, o) ==
    IF ~o.s3 THEN emitError(u)
    ELSE [u EXCEPT !.s3Upload = "upload",
                   !.s3State = "sending",
                   !.s3Closed = FALSE,
                   !.s3Loaded = 0,
                   !.s3Calls = @ + 1]

\* mutant: the multipart upload starts with the first accepted chunk
Accepted_EagerMultipart(u, o) ==
    IF Protocol(o) = multipart
    THEN (IF u.mpStarts = 0 THEN uploadMultipart(emitIllusiveProgress(u, o, 0))
          ELSE emitIllusiveProgress(u, o, 0))
    ELSE IF Protocol(o) = s3Multipart /\ u.s3Upload # "upload" THEN uploadS3(u, o)
    ELSE IF ~Truthy(o.endpoint) THEN u
    ELSE IF Protocol(o) = tusProtocol /\ ~u.tus THEN uploadTus(u)
    ELSE u

\* the callback handleChunk passes to writeToStreams
Accepted(u, o) ==
    IF Protocol(o) = multipart THEN emitIllusiveProgress(u, o, 0)
    ELSE IF Protocol(o) = s3Multipart /\ u.s3Upload # "upload" THEN uploadS3(u, o)
    ELSE IF ~Truthy(o.endpoint) THEN u
    ELSE IF Protocol(o) = tusProtocol /\ ~u.tus THEN uploadTus(u)
    ELSE u

\* const doneLength = this.duplexStream ? 2 : 1
doneLength(u) == IF u.duplexStream THEN 2 ELSE 1

\* onDone of the i-th writeToStreams call, invoked by one of the sinks
onDone(u, o, i) ==
    LET w == u.writes[i]
        due == w.done + 1 >= doneLength(u)
        u1 == [u EXCEPT !.writes[i].done = @ + 1,
                        !.writes[i].fired = IF due THEN @ + 1 ELSE @]
    IN IF due THEN Accepted(u1, o) ELSE u1

\* a sink acknowledges its writes in the order they were made; a write made
\* after end() is answered with an error on the next tick
FileAckable(u, i) ==
    /\ ~u.writes[i].fileAck
    /\ \A j \in 1..(i - 1) :
          u.writes[j].afterEnd = u.writes[i].afterEnd => u.writes[j].fileAck

TeeAckable(u, i) ==
    /\ ~u.writes[i].teeAck
    /\ \A j \in 1..(i - 1) :
          u.writes[j].afterEnd = u.writes[i].afterEnd => u.writes[j].teeAck

\* ---------------------------------------------------------------- actions
\* handleChunk(chunk): chunk is a buffer of ChunkLen bytes or null.  On an
\* object whose constructor returned early this.options is undefined.
HandleChunk ==
    /\ \E chunk \in {"buffer", "null"} :
         IF ~s.constructed
         THEN /\ s.thrown = "none"
              /\ s' = [s EXCEPT !.thrown = "TypeError"]
         ELSE IF chunk = "null"
         THEN /\ ~s.ended
              /\ s' = [s EXCEPT !.ended = TRUE]
         ELSE /\ Len(s.writes) < MaxChunks
              /\ s' = [s EXCEPT !.writes = Append(@,
                          [len |-> ChunkLen, afterEnd |-> s.ended,
                           late |-> s.streamsEnded,
                           fileAck |-> FALSE, teeAck |-> FALSE,
                           done |-> 0, fired |-> 0])]
    /\ UNCHANGED <<options, peer>>

\* onSocketReady(callback): registers the once-listener, then logs
\* this.shortToken (this.token.substring)
\* (on a constructed object it is called once, before the download starts)
OnSocketReady ==
    /\ IF ~s.constructed
       THEN /\ s.thrown = "none"
            /\ s' = [s EXCEPT !.listeners = @ \cup {Name("connection", s.token)},
                              !.thrown = "TypeError"]
       ELSE /\ Name("connection", s.token) \notin s.listeners
            /\ s.writes = <<>>
            /\ ~s.ended
            /\ s' = [s EXCEPT !.listeners = @ \cup {Name("connection", s.token)}]
    /\ UNCHANGED <<options, peer>>

\* the connection:<token> signal: the once-listener runs and is removed
Connection ==
    /\ Name("connection", TokenA) \in s.listeners
    /\ s' = [s EXCEPT !.listeners = @ \ {Name("connection", TokenA)}]
    /\ UNCHANGED <<options, peer>>

\* cleanUp() called from outside on an object whose constructor returned
\* early (this.options.path); on a constructed object it is called by the
\* terminal callbacks below.
CleanUpCall ==
    /\ ~s.constructed
    /\ s.thrown = "none"
    /\ s' = [s EXCEPT !.thrown = "TypeError"]
    /\ UNCHANGED <<options, peer>>

\* the file write stream finished a write: bytesWritten grows, onDone runs
FileAck ==
    /\ \E i \in 1..Len(s.writes) :
         /\ FileAckable(s, i)
         /\ s' = onDone([s EXCEPT !.writes[i].fileAck = TRUE], options, i)
    /\ UNCHANGED <<options, peer>>

\* the PassThrough took a write: onDone runs
TeeAck ==
    /\ s.duplexStream
    /\ \E i \in 1..Len(s.writes) :
         /\ TeeAckable(s, i)
         /\ s' = onDone([s EXCEPT !.writes[i].teeAck = TRUE], options, i)
    /\ UNCHANGED <<options, peer>>

\* 'finish' of the file write stream: the tail stream of a running s3 upload
\* is closed, streamsEnded is set, the multipart upload starts
Finish ==
    /\ s.ended
    /\ ~s.streamsEnded
    /\ \A i \in 1..Len(s.writes) : s.writes[i].afterEnd \/ s.writes[i].fileAck
    /\ LET u1 == [s EXCEPT !.streamsEnded = TRUE,
                           !.s3Closed = (s.s3State = "sending")]
       IN s' = IF Truthy(options.endpoint) /\ Protocol(options) = multipart
               THEN uploadMultipart(u1) ELSE u1
    /\ UNCHANGED <<options, peer>>

\* file.on('data'): bytesUploaded += data.length; emitIllusiveProgress
MultipartData ==
    /\ s.mpState = "posting"
    /\ s.mpUploaded < bytesWritten(s)
    /\ s' = emitIllusiveProgress([s EXCEPT !.mpUploaded = @ + ChunkLen],
                                 options, s.mpUploaded + ChunkLen)
    /\ UNCHANGED <<options, peer>>

\* header names a response can carry
HeaderNames == {"set-cookie", "set-cookie2", "content-type"}

\* mutant: only set-cookie is removed
StripCookies_First(headers) == headers \ {"set-cookie"}

\* delete headers['set-cookie']; delete headers['set-cookie2']
StripCookies(headers) == headers \ {"set-cookie", "set-cookie2"}

\* the request.post callback: (error), or a response with a status and headers
MultipartResponse ==
    /\ s.mpState = "posting"
    /\ \E outcome \in {"error", "status>=400", "status<400"} :
       \E headers \in SUBSET HeaderNames :
         LET u1 == [s EXCEPT !.mpState = "done", !.mpResponse = outcome]
             u2 == [u1 EXCEPT !.mpHeaders = StripCookies(headers)]
         IN /\ outcome = "error" => headers = {}
            /\ s' = CASE outcome = "error" -> emitError(u1)
                      [] outcome = "status>=400" ->
                            UnlessThrown(s, emitError(u2), cleanUp(emitError(u2)))
                      [] outcome = "status<400" ->
                            UnlessThrown(s, emitSuccess(u2), cleanUp(emitSuccess(u2)))
    /\ UNCHANGED <<options, peer>>

\* upload.on('httpUploadProgress', ({ loaded, total }) => ...)
S3Progress ==
    /\ s.s3State = "sending"
    /\ s.fileExists
    /\ s.s3Loaded < bytesWritten(s)
    /\ \E total \in {NoTotal} \cup (IF s.s3Closed THEN {bytesWritten(s)} ELSE {}) :
         s' = emitProgress([s EXCEPT !.s3Loaded = @ + ChunkLen],
                           options, s.s3Loaded + ChunkLen, total)
    /\ UNCHANGED <<options, peer>>

\* the upload.send callback with an error
S3Error ==
    /\ s.s3State = "sending"
    /\ LET e == emitError([s EXCEPT !.s3Upload = "null", !.s3State = "done"])
       IN s' = UnlessThrown(s, e, cleanUp(e))
    /\ UNCHANGED <<options, peer>>

\* the upload.send callback with data: the body stream was closed
S3Success ==
    /\ s.s3State = "sending"
    /\ s.fileExists
    /\ s.s3Closed
    /\ LET e == emitSuccess([s EXCEPT !.s3Upload = "null", !.s3State = "done"])
       IN s' = UnlessThrown(s, e, cleanUp(e))
    /\ UNCHANGED <<options, peer>>

\* tus onProgress(bytesUploaded, bytesTotal)
TusProgress ==
    /\ s.tusState = "running"
    /\ s.tusOffset < bytesTeed(s)
    /\ \E total \in {NoTotal} \cup (IF s.ended THEN {bytesTeed(s)} ELSE {}) :
         s' = emitProgress([s EXCEPT !.tusOffset = @ + ChunkLen],
                           options, s.tusOffset + ChunkLen, total)
    /\ UNCHANGED <<options, peer>>

\* tus onError(error)
TusError ==
    /\ s.tusState = "running"
    /\ s' = emitError([s EXCEPT !.tusState = "failed"])
    /\ UNCHANGED <<options, peer>>

\* tus onSuccess(): the tee has ended and all of it was uploaded
TusSuccess ==
    /\ s.tusState = "running"
    /\ s.ended
    /\ \A i \in 1..Len(s.writes) : s.writes[i].teeAck
    /\ s.tusOffset = bytesTeed(s)
    /\ LET e == emitSuccess([s EXCEPT !.tusState = "done"])
       IN s' = UnlessThrown(s, e, cleanUp(e))
    /\ UNCHANGED <<options, peer>>

\* pause:<token> => this.tus.abort()
Pause ==
    /\ Name("pause", TokenA) \in s.listeners
    /\ s.signals < MaxSignals
    /\ s' = [s EXCEPT !.signals = @ + 1,
                      !.tusState = IF @ = "running" THEN "aborted" ELSE @]
    /\ UNCHANGED <<options, peer>>

\* resume:<token> => this.tus.start()
Resume ==
    /\ Name("resume", TokenA) \in s.listeners
    /\ s.signals < MaxSignals
    /\ s' = [s EXCEPT !.signals = @ + 1,
                      !.tusState = "running",
                      !.tusStarts = @ + 1,
                      !.tusOverlap = @ \/ (s.tusState = "running")]
    /\ UNCHANGED <<options, peer>>

\* the configuration of the second session
PeerOptions ==
    [protocol |-> tusProtocol, endpoint |-> GoodUrl, uploadUrl |-> NoUrl,
     size |-> 2, s3 |-> FALSE, debug |-> FALSE, uploadUrls |-> NoList,
     storage |-> "none"]

\* new Uploader(PeerOptions): its own token; its listeners are on the
\* process-wide emitter
PeerSession == [Constructor(PeerOptions) EXCEPT !.token = TokenB]

Init ==
    /\ options \in RunOptions \cup AllOptions
    /\ s = Constructor(options)
    /\ peer = PeerSession

Next ==
    \/ HandleChunk
    \/ OnSocketReady
    \/ Connection
    \/ CleanUpCall
    \/ FileAck
    \/ TeeAck
    \/ Finish
    \/ MultipartData
    \/ MultipartResponse
    \/ S3Progress
    \/ S3Error
    \/ S3Success
    \/ TusProgress
    \/ TusError
    \/ TusSuccess
    \/ Pause
    \/ Resume

Spec == Init /\ [][Next]_vars

\* Sink acknowledgements, 'finish', the file reads and the drivers'
\* callbacks are delivered; chunks, the sentinel, pause / resume signals and
\* driver errors are up to the environment.
Fairness ==
    /\ WF_vars(FileAck)
    /\ WF_vars(TeeAck)
    /\ WF_vars(Finish)
    /\ WF_vars(MultipartData)
    /\ WF_vars(MultipartResponse)
    /\ WF_vars(S3Success)
    /\ WF_vars(TusProgress)
    /\ WF_vars(TusSuccess)

FairSpec == Spec /\ Fairness

\* sessions constructed with a durable storage handle
StorageInit ==
    /\ options \in StorageOptions
    /\ s = Constructor(options)
    /\ peer = PeerSession

StorageSpec == StorageInit /\ [][Next]_vars

\* ------------------------------------------------- two sessions, one bus
\* the second session as its methods see it: with the process-wide emitter
OnBus(u) == [u EXCEPT !.listeners = s.listeners]

\* a handler of the second session ran and left it as v: its fields are its
\* own, what it did to the emitter is seen by both sessions
PeerStep(v) ==
    /\ peer' = [v EXCEPT !.listeners = {}]
    /\ s' = [s EXCEPT !.listeners = v.listeners]
    /\ UNCHANGED options

\* handleChunk(chunk) of the second session; it is followed from its
\* construction through its first chunk and the start of its driver
PeerHandleChunk ==
    /\ peer.writes = <<>>
    /\ PeerStep([OnBus(peer) EXCEPT !.writes = Append(@,
                    [len |-> ChunkLen, afterEnd |-> peer.ended,
                     late |-> peer.streamsEnded,
                     fileAck |-> FALSE, teeAck |-> FALSE,
                     done |-> 0, fired |-> 0])])

\* its file write stream finished a write
PeerFileAck ==
    \E i \in 1..Len(peer.writes) :
       /\ FileAckable(peer, i)
       /\ PeerStep(onDone([OnBus(peer) EXCEPT !.writes[i].fileAck = TRUE],
                          PeerOptions, i))

\* its PassThrough took a write
PeerTeeAck ==
    \E i \in 1..Len(peer.writes) :
       /\ TeeAckable(peer, i)
       /\ PeerStep(onDone([OnBus(peer) EXCEPT !.writes[i].teeAck = TRUE],
                          PeerOptions, i))

\* the pause:<token of the second session> signal
PeerPause ==
    /\ Name("pause", TokenB) \in s.listeners
    /\ peer.signals < PeerSignals
    /\ PeerStep([OnBus(peer) EXCEPT !.signals = @ + 1,
                     !.tusState = IF @ = "running" THEN "aborted" ELSE @])

\* the resume:<token of the second session> signal
PeerResume ==
    /\ Name("resume", TokenB) \in s.listeners
    /\ peer.signals < PeerSignals
    /\ PeerStep([OnBus(peer) EXCEPT !.signals = @ + 1,
                     !.tusState = "running",
                     !.tusStarts = @ + 1,
                     !.tusOverlap = @ \/ (peer.tusState = "running")])

PeerNext ==
    \/ PeerHandleChunk
    \/ PeerFileAck
    \/ PeerTeeAck
    \/ PeerPause
    \/ PeerResume

\* the first session in each protocol, and one that failed validation
DuoOptions ==
    {o \in RunOptions : /\ o.size = 2
                        /\ o.uploadUrl = NoUrl
                        /\ o.s3 = (o.protocol = s3Multipart)
                        /\ o.protocol # NoProtocol}

DuoInit ==
    /\ options \in DuoOptions
    /\ s = Constructor(options)
    /\ peer = PeerSession

DuoNext == Next \/ PeerNext

DuoSpec == DuoInit /\ [][DuoNext]_vars

\* ----------------------------------------------------------------- claims
Terminals == s.nSuccess + s.nError

\* the input stream kept its contract: no chunk followed the sentinel
InContract(u) == \A i \in 1..Len(u.writes) : ~u.writes[i].afterEnd

AllSinksAcked(w) == w.fileAck /\ (s.duplexStream => w.teeAck)

\* C1: at most one terminal event (success or error) is emitted per session,
\* and never both a success and an error.
C1_AtMostOneTerminal ==
    InContract(s) =>
        /\ Terminals <= 1
        /\ ~(s.nSuccess >= 1 /\ s.nError >= 1)

\* C2: a session that passed validation and was given the end sentinel
\* eventually emits a terminal event.
C2_EventuallyTerminal ==
    (s.constructed /\ s.ended) ~> (Terminals >= 1 \/ ~InContract(s))

\* C3: cleanUp runs at most once, and never before a terminal event.
C3_CleanUpOnceAfterTerminal ==
    InContract(s) =>
        /\ s.cleanUps <= 1
        /\ (s.cleanUps >= 1 => Terminals >= 1)

\* C4: after an 'error' event of a transport or protocol failure cleanUp
\* runs: the file is deleted, no pause / resume listener remains.
C4_ErrorThenCleanUp ==
    (s.nError >= 1) ~> (s.cleanUps >= 1 /\ ~s.fileExists
                        /\ s.listeners \cap {Name("pause", s.token), Name("resume", s.token)} = {})

\* C5: an s3-multipart session without a configured client, once its stream
\* has ended, has emitted an 'error', never called client.upload, and has
\* run cleanUp.
C5_S3NotConfigured ==
    (/\ s.constructed
     /\ options.protocol = s3Multipart
     /\ ~options.s3
     /\ s.streamsEnded
     /\ InContract(s))
    => (s.nError >= 1 /\ s.s3Calls = 0 /\ s.cleanUps >= 1)

\* C6: a session whose options failed validation answers 400 with the
\* message, has no file, no upload, no event, and every later public call
\* on it short-circuits (nothing thrown, nothing registered).
C6_InvalidSessionInert ==
    hasError(s) =>
        /\ getResponse(s) = [body |-> s.errRespMessage, status |-> 400]
        /\ ~s.writeStream /\ ~s.fileExists
        /\ s.mpStarts = 0 /\ s.s3Calls = 0 /\ s.tusStarts = 0
        /\ Terminals = 0 /\ ~s.payload.set
        /\ s.thrown = "none"
        /\ s.listeners = {}

\* the configurations C7 says are accepted
C7_Accepted(o) ==
    \/ o.protocol = s3Multipart
    \/ /\ Truthy(o.endpoint) \/ Truthy(o.uploadUrl)
       /\ \A url \in {o.endpoint, o.uploadUrl} :
             Truthy(url) =>
                /\ isURL(url, ~o.debug)
                /\ (o.uploadUrls.configured => hasMatch(url, o.uploadUrls.patterns))

\* C7: validateOptions accepts exactly the configurations of C7_Accepted; a
\* rejected one answers 400 and has no file, in particular the endpoint
\* https://evil.example.com/x under the allow-list
\* ["https://uploads.example.com/*"].
C7_ValidateOptions ==
    /\ (~hasError(s)) <=> C7_Accepted(options)
    /\ hasError(s) => (getResponse(s).status = 400 /\ ~s.writeStream)
    /\ (/\ options.protocol # s3Multipart
        /\ options.endpoint = EvilUrl
        /\ options.uploadUrls = [configured |-> TRUE, patterns |-> <<UploadsPattern>>])
       => (hasError(s) /\ ~s.writeStream)

C7_Witness ==
    /\ options.protocol = tusProtocol
    /\ options.endpoint = EvilUrl
    /\ options.uploadUrl = GoodUrl
    /\ options.uploadUrls = [configured |-> TRUE, patterns |-> <<UploadsPattern>>]
    /\ s.errRespMessage = MsgNotAllowed
    /\ getResponse(s).status = 400
    /\ ~s.writeStream

\* C8: the acceptance callback of a chunk fires exactly once, and only when
\* every active sink has acknowledged the chunk; and the producer cannot
\* hand over another chunk before the acceptance of the previous one fired
\* (at most one chunk is waiting for its acceptance).
C8_AcceptedBeforeNextChunk ==
    /\ \A i \in 1..Len(s.writes) :
          /\ s.writes[i].fired <= 1
          /\ (s.writes[i].fired = 1) <=> AllSinksAcked(s.writes[i])
    /\ InContract(s) =>
          Cardinality({i \in 1..Len(s.writes) : s.writes[i].fired = 0}) <= 1

\* a <= b on emitted percentages
PercentLeq(a, b) == a = b \/ (a # NaN /\ b # NaN /\ a <= b)

\* C9: the whole percentages of the emitted progress events never decrease
\* (stated for a positive declared size and a stream that kept its contract).
C9_ProgressNonDecreasing ==
    [][(options.size > 0 /\ InContract(s'))
         => PercentLeq(s.emittedProgress, s'.emittedProgress)]_vars

\* C10: when the bytes written B differ from the declared size S, a progress
\* payload computed after end-of-download has bytesTotal = B (stated for a
\* positive declared size and a stream that kept its contract).
C10_TotalIsBytesWritten ==
    (/\ InContract(s)
     /\ options.size > 0
     /\ s.payload.set
     /\ s.payload.streamsEnded
     /\ bytesWritten(s) # options.size)
    => s.payload.bytesTotal = bytesWritten(s)

\* C11: on a tus session a pause emits no 'error', the session has at most
\* one 'success', and the driver is never started while an attempt is
\* already running, whatever the number and order of pause / resume signals.
C11_PauseResumeSafe ==
    [][/\ (Pause => s'.nError = s.nError)
       /\ s'.nSuccess <= 1
       /\ ~s'.tusOverlap]_vars

\* C12: on a form-multipart session a response with status >= 400 gives an
\* 'error' and no 'success', a response with status < 400 gives a 'success'
\* and no 'error', and the emitted headers carry neither set-cookie nor
\* set-cookie2.
C12_StatusDecidesOutcome ==
    /\ s.mpResponse = "status>=400" => (s.nError = 1 /\ s.nSuccess = 0)
    /\ s.mpResponse = "status<400" => (s.nSuccess = 1 /\ s.nError = 0)
    /\ s.mpHeaders \cap {"set-cookie", "set-cookie2"} = {}

C12_Witness ==
    /\ Protocol(options) = multipart
    /\ s.mpResponse = "status>=400"
    /\ s.nError = 1
    /\ s.cleanUps = 1
    /\ s.mpHeaders = {"content-type"}

\* C13: with a storage whose set throws, every terminal event handed to
\* emitSuccess / emitError is still emitted on the token channel, exactly
\* once.
C13_EmittedDespiteStorage ==
    s.terminalCalls = s.nSuccess + s.nError

\* C14: a progress event is emitted only when its whole percentage differs
\* from the last emitted one (0 before anything was emitted): no two
\* consecutive progress events carry the same whole percentage.
C14_NoRepeatedPercentage ==
    InContract(s) => ~s.repeatedProgress

\* C15: a form-multipart upload never starts before the sentinel was
\* received and the file sink reported finished, it starts at most once, and
\* every progress computed during the download has bytesUploaded equal to
\* half of the bytes written (upload component zero).
C15_MultipartAfterDownload ==
    Protocol(options) = multipart =>
        /\ s.mpStarts <= 1
        /\ s.mpStarts >= 1 => (s.ended /\ s.streamsEnded)
        /\ (s.payload.set /\ ~s.payload.streamsEnded) =>
               (2 * s.payload.bytesUploaded = bytesWritten(s) /\ s.mpUploaded = 0)

\* the upload has started after two chunks were written; the last progress
\* of the download phase carries half of the four bytes
C15_Witness ==
    /\ Protocol(options) = multipart
    /\ s.mpStarts = 1 /\ s.mpState = "posting" /\ s.streamsEnded
    /\ bytesWritten(s) = 2 * ChunkLen
    /\ s.payload.set /\ ~s.payload.streamsEnded
    /\ s.payload.bytesUploaded = ChunkLen

\* C16: in a tus session that passed validation the driver exists as soon as
\* the first chunk was accepted by both sinks, whether the destination is an
\* endpoint, an uploadUrl, or both.
C16_TusStartedAtFirstChunk ==
    (/\ Protocol(options) = tusProtocol
     /\ s.constructed
     /\ InContract(s)
     /\ \E i \in 1..Len(s.writes) : s.writes[i].fired >= 1)
    => s.tus

\* C17: at most one upload strategy instance per session, of the protocol
\* fixed at construction; no instance is started after one has reached its
\* terminal callback (the s3 upload is not started again).
C17_OneStrategyInstance ==
    InContract(s) =>
        /\ s.s3Calls <= 1
        /\ s.mpStarts <= 1
        /\ s.s3Calls >= 1 => Protocol(options) = s3Multipart
        /\ s.mpStarts >= 1 => Protocol(options) = multipart
        /\ s.tus => Protocol(options) = tusProtocol

\* C18: once streamsEnded is set, a later non-sentinel chunk writes to no
\* sink, leaves bytesWritten unchanged and starts no upload; bytesWritten
\* never decreases and counts the bytes of the file sink, not of the tee.
C18_NothingAfterStreamsEnded ==
    [][/\ bytesWritten(s') >= bytesWritten(s)
       /\ s.streamsEnded => bytesWritten(s') = bytesWritten(s)
       /\ (\E i \in 1..Len(s.writes) :
               s.writes[i].late /\ s'.writes[i].fired > s.writes[i].fired)
            => /\ s'.s3Calls = s.s3Calls
               /\ s'.mpStarts = s.mpStarts
               /\ s'.tus = s.tus]_vars

\* what belongs to one session: its object, and the names on the shared
\* emitter that carry its token
NamesOf(token) == {n \in s.listeners : n[2] = token}
FootprintA == <<[s EXCEPT !.listeners = {}], NamesOf(TokenA)>>
FootprintB == <<peer, NamesOf(TokenB)>>

\* C19: with two sessions on the shared emitter every step touches the
\* object and the token-scoped names of one session only: a pause / resume
\* signal for one token leaves the other session alone, and cleanUp of one
\* session removes only its own pause / resume names.
C19_SessionsIsolated ==
    [][/\ (FootprintA' = FootprintA \/ FootprintB' = FootprintB)
       /\ (Pause \/ Resume) => FootprintB' = FootprintB
       /\ (PeerPause \/ PeerResume) => FootprintA' = FootprintA]_vars

\* the first session has ended and cleaned up while the second one, started
\* before, still has its subscriptions and its file
C19_Witness ==
    /\ Protocol(options) = tusProtocol
    /\ s.cleanUps = 1 /\ s.nSuccess = 1
    /\ NamesOf(TokenA) = {}
    /\ s.keptNames = {Name("pause", TokenB), Name("resume", TokenB)}
    /\ peer.tusState = "running" /\ peer.fileExists
    /\ NamesOf(TokenB) = {Name("pause", TokenB), Name("resume", TokenB)}

\* C20: every emitted progress event carries a percentage between 0 and 100
\* (bytesUploaded never above bytesTotal), for every protocol, declared size
\* and byte count.
C20_PercentageWithinRange ==
    InContract(s) => s.emittedProgress \in 0..100

====
